---- MODULE Spec2Model ----
(***************************************************************************)
(* GPDMA driver core (embassy-stm32, src/dma/gpdma.rs): one DMA channel,   *)
(* its registers, its ChannelState (completion counter and waker slot),    *)
(* the interrupt handler AnyChannel::on_irq and the Single Transfer        *)
(* (Transfer::new_inner, request_stop, is_running, blocking_wait, Drop,    *)
(* Future::poll).                                                          *)
(*                                                                         *)
(* Three agents take steps: the task (one step per register access or      *)
(* atomic access of the code), the interrupt handler (preempts the task    *)
(* between any two of its steps and runs to completion before the task     *)
(* continues) and the DMA hardware (runs beside both).                     *)
(*                                                                         *)
(* The hardware is the environment of the code.  It follows the GPDMA      *)
(* channel rules the code relies on: EN is set by software and cleared by  *)
(* hardware on completion, error or reset; SUSP requests a suspension that *)
(* the hardware confirms with SUSPF once the ongoing burst is over, the    *)
(* channel then staying enabled and idle; IDLEF is set whenever the        *)
(* channel is disabled or suspended; flags are cleared by writing FCR.     *)
(***************************************************************************)
EXTENDS Integers, Sequences, FiniteSets, TLC

VARIABLES
    cr,              \* GPDMA_CxCR: en, susp, the five interrupt enables, prio
    sr,              \* GPDMA_CxSR: idlef, tcf, htf, suspf, dtef, usef
    br1,             \* GPDMA_CxBR1.BNDT: bytes left in the block
    tr1,             \* GPDMA_CxTR1: widths, increments, burst lengths, ports
    tr2,             \* GPDMA_CxTR2: dreq
    sar,             \* GPDMA_CxSAR
    dar,             \* GPDMA_CxDAR
    llr,             \* GPDMA_CxLLR: usa, uda, la (the linked-list item the channel reloads from)
    hw_total,        \* hardware: the block size latched when the channel was enabled
    complete_count,  \* ChannelState.complete_count
    waker,           \* ChannelState.waker holds a registered waker
    woken,           \* the task has been woken and not polled since
    pc,              \* the task's position
    op,              \* the operation the task is in
    arg,             \* the arguments of the new_inner call in progress
    sr_snap,         \* is_running's local `sr`
    ret,             \* the last result of is_running
    ret_hw,          \* hw_reported as it was when that call of is_running read SR
    irq_pc,          \* the interrupt handler's position
    irq_sr,          \* on_irq's local `sr`
    panicked,        \* "none", or the panic that aborted the program
    overflow_checks, \* the build traps arithmetic overflow (debug) or wraps (release)
    hw_reported,     \* the hardware has ended the transfer armed last (complete, suspended, error)
    drop_active,     \* the hardware was transferring when the destructor started
    rb,              \* the ring buffer object that owns the channel, if any
    loc,             \* the locals of the ring buffer operation in progress
    gh               \* history of the ring: elements moved by the hardware and by the owner

vars == <<cr, sr, br1, tr1, tr2, sar, dar, llr, hw_total, complete_count, waker, woken,
          pc, op, arg, sr_snap, ret, ret_hw, irq_pc, irq_sr, panicked,
          overflow_checks, hw_reported, drop_active, rb, loc, gh>>

\* The ring buffer's part of the state, which the Single Transfer leaves alone.
ringvars == <<rb, loc, gh>>

regs == <<cr, sr, br1, tr1, tr2, sar, dar, llr>>

----------------------------------------------------------------------------
(* Bounds and program constants *)

\* The longest buffer, in elements, of a transfer whose hardware progress is followed.
MaxLen == 2

\* The laps of a ring buffer the hardware may get ahead of the owner's cursor
\* before the peripheral makes no more data requests.
MaxLaps == 2

\* The operations on its cursor the owner of a ring buffer calls.
MaxCalls == 2

\* 2^16: BNDT is a 16-bit field, and a machine word is two 16-bit halves.
U16 == 65536

MaxBurst == 63

WordSizes == {1, 2, 4}

Dirs == {"MemoryToPeripheral", "PeripheralToMemory"}

Priorities == {"LowWithLowWeight", "LowWithMidWeight", "LowWithHighWeigt", "High"}

----------------------------------------------------------------------------
(* Machine words.  A usize of the 32-bit target is a record [hi, lo] of    *)
(* two 16-bit halves, value hi * 2^16 + lo, so that a product modulo 2^32  *)
(* is computed exactly.                                                    *)

Word32(h, l) == [hi |-> h, lo |-> l]

\* Bits 16 and up of the exact product a * b (b is 1, 2 or 4): no modulus taken.
MulHigh(a, b) == a.hi * b + ((a.lo * b) \div U16)

\* usize multiplication overflows when the exact product needs more than 32 bits.
MulOverflows(a, b) == MulHigh(a, b) >= U16

\* a * b modulo 2^32, what `*` yields in a build without overflow checks.
WrappingMul(a, b) == Word32(MulHigh(a, b) % U16, (a.lo * b) % U16)

\* usize -> u16 by try_into: the value, or -1 for Err when it does not fit.
TryIntoU16(x) == IF x.hi = 0 THEN x.lo ELSE -1

\* mem_len * data_size.bytes() as the code computes it: the wrapped product, and
\* whether the build trapped an overflow instead of yielding it.
ByteCount(mem_len, data_size) ==
    [trap |-> overflow_checks /\ MulOverflows(mem_len, data_size),
     val  |-> WrappingMul(mem_len, data_size)]

\* (1..=63).contains(&b)
BurstOk(b) == b >= 1 /\ b <= MaxBurst

\* From<TransferPriority> for vals::Prio
PrioVal(p) ==
    CASE p = "LowWithLowWeight" -> "LOW_WITH_MID_WEIGHT"
      [] p = "LowWithMidWeight" -> "LOW_WITH_MID_WEIGHT"
      [] p = "LowWithHighWeigt" -> "LOW_WITH_HIGH_WEIGHT"
      [] p = "High" -> "HIGH"

\* The outcome of new_inner's checks, lines 341-348: "ok", or the panic.
Validate(a) ==
    LET prod == ByteCount(a.mem_len, a.data_size) IN
    IF prod.trap THEN "overflow"
    ELSE IF TryIntoU16(prod.val) = -1 THEN "too_large"
    ELSE IF ~BurstOk(a.src_burst_len) \/ ~BurstOk(a.dst_burst_len) THEN "burst"
    ELSE "ok"

\* bndt of line 342, for arguments that passed the checks.
Bndt(a) == TryIntoU16(ByteCount(a.mem_len, a.data_size).val)

----------------------------------------------------------------------------
(* Register values *)

CrZero == [en |-> FALSE, susp |-> FALSE, tcie |-> FALSE, htie |-> FALSE,
           suspie |-> FALSE, useie |-> FALSE, dteie |-> FALSE, prio |-> "LOW_WITH_LOW_WEIGHT"]

SrIdle == [idlef |-> TRUE, tcf |-> FALSE, htf |-> FALSE, suspf |-> FALSE,
           dtef |-> FALSE, usef |-> FALSE]

Tr1Zero == [sdw |-> 1, ddw |-> 1, sinc |-> FALSE, dinc |-> FALSE,
            sbl_1 |-> 0, dbl_1 |-> 0, sap |-> "PORT0", dap |-> "PORT0"]

Tr2Zero == [dreq |-> "SOURCE_PERIPHERAL"]

\* LLR = 0: no linked-list item, the channel ends with its block.
LlrZero == [usa |-> FALSE, uda |-> FALSE, la |-> "null"]

NoArg == [dir |-> "MemoryToPeripheral", mem_len |-> Word32(0, 0), incr_mem |-> FALSE,
          data_size |-> 1, dst_size |-> 1, src_burst_len |-> 1, dst_burst_len |-> 1,
          priority |-> "LowWithLowWeight"]

NoSnap == [idlef |-> FALSE, suspf |-> FALSE, reported |-> FALSE]

\* DmaIndex::default(): a position in the ring and the laps made before it.
IdxZero == [complete_count |-> 0, pos |-> 0]

\* No ring buffer owns the channel.
NoRing == [kind |-> "none", cap |-> 0, word_size |-> 1,
           read_index |-> IdxZero, write_index |-> IdxZero]

NoRingArg == [kind |-> "none", len |-> 0, word_size |-> 1, aligned |-> TRUE]

NoLoc == [a |-> NoRingArg, buf_len |-> 0, read_data |-> 0, first |-> 0, moved |-> 0,
          count_diff |-> 0, back |-> "none", res |-> "none", rem |-> 0]

NoHist == [ready |-> 0, arrived |-> 0, fresh |-> FALSE, half |-> FALSE, lap |-> FALSE,
           late |-> FALSE,
           skew |-> FALSE,
           over |-> FALSE, uncounted |-> FALSE, started |-> FALSE, seeded |-> FALSE,
           erred |-> FALSE, calls |-> 0]

\* The channel is moving data: enabled and neither suspended nor done.
HwActive == cr.en /\ ~sr.idlef

\* The channel's interrupt request: a flag with its interrupt enable set.
IrqLine ==
    \/ sr.tcf /\ cr.tcie
    \/ sr.htf /\ cr.htie
    \/ sr.suspf /\ cr.suspie
    \/ sr.dtef /\ cr.dteie
    \/ sr.usef /\ cr.useie

----------------------------------------------------------------------------
(* Arguments of new_inner *)

Args(dirs, lens, incrs, sizes, dsizes, sbls, dbls, prios) ==
    [dir : dirs, mem_len : lens, incr_mem : incrs, data_size : sizes,
     dst_size : dsizes, src_burst_len : sbls, dst_burst_len : dbls, priority : prios]

\* The transfers whose hardware progress is followed: short buffers, and a few
\* calls the checks of new_inner reject.
SmallArgs ==
    Args({"MemoryToPeripheral"}, {Word32(0, l) : l \in 0..MaxLen}, {TRUE}, {1, 2},
         {1}, {1}, {1}, {"LowWithLowWeight"})
    \cup Args({"PeripheralToMemory"}, {Word32(0, 1), Word32(1, 0), Word32(16384, 0)}, {TRUE}, {4},
              {4}, {0, 1}, {1, MaxBurst + 1}, {"High"})

\* Element counts around the limits of BNDT and of the machine word.
WideLens ==
    {Word32(h, l) : h \in {0, 1, 16384, 32768, 65535},
                    l \in {0, 1, 16383, 16384, 32767, 32768, 65535}}

WideArgs ==
    Args(Dirs, WideLens, BOOLEAN, WordSizes, {1}, {1}, {1}, {"LowWithLowWeight"})
    \cup Args({"MemoryToPeripheral"}, {Word32(0, 3), Word32(0, 65535)}, BOOLEAN, WordSizes,
              WordSizes, {0, 1, 2, MaxBurst, MaxBurst + 1, 255},
              {0, 1, MaxBurst, MaxBurst + 1}, {"LowWithLowWeight"})
    \cup Args(Dirs, {Word32(0, 3)}, {TRUE}, {2}, {2}, 1..MaxBurst, {1, MaxBurst}, Priorities)
    \cup Args({"PeripheralToMemory"}, {Word32(0, 3)}, {TRUE}, {2}, {2}, {1, 2, MaxBurst},
              1..MaxBurst, {"LowWithLowWeight"})

----------------------------------------------------------------------------
(* Initial state: the channel after hardware reset, no transfer object. *)

InitCommon ==
    /\ cr = CrZero
    /\ sr = SrIdle
    /\ br1 = 0
    /\ tr1 = Tr1Zero
    /\ tr2 = Tr2Zero
    /\ sar = "zero"
    /\ dar = "zero"
    /\ llr = LlrZero
    /\ hw_total = 0
    /\ complete_count = 0
    /\ waker = FALSE
    /\ woken = FALSE
    /\ sr_snap = NoSnap
    /\ ret = "none"
    /\ ret_hw = FALSE
    /\ irq_pc = "none"
    /\ irq_sr = SrIdle
    /\ panicked = "none"
    /\ overflow_checks \in BOOLEAN
    /\ hw_reported = TRUE
    /\ drop_active = FALSE
    /\ rb = NoRing
    /\ loc = NoLoc
    /\ gh = NoHist

Init ==
    /\ InitCommon
    /\ pc = "idle"
    /\ op = "none"
    /\ arg = NoArg

\* The task runs when the program has not aborted and no handler is running.
TaskRuns == panicked = "none" /\ irq_pc = "none"

----------------------------------------------------------------------------
(* Transfer::new_inner *)

\* A caller starts a transfer on the channel (new_read, new_write, new_write_repeated).
Call ==
    /\ TaskRuns
    /\ pc = "idle"
    /\ \E a \in SmallArgs : arg' = a
    /\ pc' = "new_check"
    /\ op' = "new"
    /\ UNCHANGED <<regs, hw_total, complete_count, waker, woken, sr_snap, ret, ret_hw,
                   irq_pc, irq_sr, panicked, overflow_checks, hw_reported, drop_active>>
    /\ UNCHANGED ringvars

\* panic!: the program aborts where it stands.
NewInnerAbort_AfterSwap(msg) ==
    /\ panicked' = msg
    /\ complete_count' = 0
    /\ UNCHANGED <<regs, hw_total, waker, woken, pc, op, arg, sr_snap, ret, ret_hw,
                   irq_pc, irq_sr, overflow_checks, hw_reported, drop_active>>

NewInnerAbort(msg) ==
    /\ panicked' = msg
    /\ UNCHANGED <<regs, hw_total, complete_count, waker, woken, pc, op, arg, sr_snap,
                   ret, ret_hw, irq_pc, irq_sr, overflow_checks, hw_reported, drop_active>>

\* Lines 341-348: the byte count and the burst lengths are checked.
NewCheck ==
    /\ TaskRuns
    /\ pc = "new_check"
    /\ IF Validate(arg) = "ok"
       THEN /\ pc' = "new_fence"
            /\ UNCHANGED <<regs, hw_total, complete_count, waker, woken, op, arg, sr_snap,
                           ret, ret_hw, irq_pc, irq_sr, panicked, overflow_checks,
                           hw_reported, drop_active>>
       ELSE NewInnerAbort(Validate(arg))
    /\ UNCHANGED ringvars

\* Line 356: fence(Ordering::SeqCst), before anything is written.
NewFence ==
    /\ TaskRuns
    /\ pc = "new_fence"
    /\ pc' = "new_swap"
    /\ UNCHANGED <<regs, hw_total, complete_count, waker, woken, op, arg, sr_snap, ret,
                   ret_hw, irq_pc, irq_sr, panicked, overflow_checks, hw_reported,
                   drop_active>>
    /\ UNCHANGED ringvars

\* Line 360: state.complete_count.swap(0)
NewSwap ==
    /\ TaskRuns
    /\ pc = "new_swap"
    /\ complete_count' = 0
    /\ pc' = "new_reset"
    /\ UNCHANGED <<regs, hw_total, waker, woken, op, arg, sr_snap, ret, ret_hw, irq_pc,
                   irq_sr, panicked, overflow_checks, hw_reported, drop_active>>
    /\ UNCHANGED ringvars

\* Line 362: ch.cr().write(|w| w.set_reset(true)).  The write zeroes every other
\* field of CR.  The hardware resets the channel (EN and SUSP cleared, idle) when
\* it is disabled or suspended; a channel still moving data stays enabled, a
\* write of 0 to EN being ignored.
CrAfterReset == IF HwActive THEN [CrZero EXCEPT !.en = TRUE] ELSE CrZero

NewReset ==
    /\ TaskRuns
    /\ pc = "new_reset"
    /\ cr' = CrAfterReset
    /\ sr' = IF HwActive THEN sr ELSE [sr EXCEPT !.idlef = TRUE]
    /\ pc' = "new_fcr"
    /\ UNCHANGED <<br1, tr1, tr2, sar, dar, llr, hw_total, complete_count, waker, woken, op, arg,
                   sr_snap, ret, ret_hw, irq_pc, irq_sr, panicked, overflow_checks,
                   hw_reported, drop_active>>
    /\ UNCHANGED ringvars

\* Line 363: ch.fcr().write(|w| w.0 = 0xFFFF_FFFF) clears every flag that can be cleared.
SrAfterFcrAll(s) == [SrIdle EXCEPT !.idlef = s.idlef]

NewFcr ==
    /\ TaskRuns
    /\ pc = "new_fcr"
    /\ sr' = SrAfterFcrAll(sr)
    /\ pc' = "new_prog"
    /\ UNCHANGED <<cr, br1, tr1, tr2, sar, dar, llr, hw_total, complete_count, waker, woken, op,
                   arg, sr_snap, ret, ret_hw, irq_pc, irq_sr, panicked, overflow_checks,
                   hw_reported, drop_active>>
    /\ UNCHANGED ringvars

\* Lines 365-383: TR1
Tr1Of_OneBurst(a) ==
    [sdw |-> a.data_size,
     ddw |-> a.dst_size,
     sinc |-> (a.dir = "MemoryToPeripheral" /\ a.incr_mem),
     dinc |-> (a.dir = "PeripheralToMemory" /\ a.incr_mem),
     sbl_1 |-> a.src_burst_len - 1,
     dbl_1 |-> a.src_burst_len - 1,
     sap |-> IF a.dir = "MemoryToPeripheral" THEN "PORT1" ELSE "PORT0",
     dap |-> IF a.dir = "MemoryToPeripheral" THEN "PORT0" ELSE "PORT1"]

Tr1Of(a) ==
    [sdw |-> a.data_size,
     ddw |-> a.dst_size,
     sinc |-> (a.dir = "MemoryToPeripheral" /\ a.incr_mem),
     dinc |-> (a.dir = "PeripheralToMemory" /\ a.incr_mem),
     sbl_1 |-> a.src_burst_len - 1,
     dbl_1 |-> a.dst_burst_len - 1,
     sap |-> IF a.dir = "MemoryToPeripheral" THEN "PORT1" ELSE "PORT0",
     dap |-> IF a.dir = "MemoryToPeripheral" THEN "PORT0" ELSE "PORT1"]

\* Lines 384-393: TR2
Tr2Of(a) ==
    [dreq |-> IF a.dir = "MemoryToPeripheral" THEN "DESTINATION_PERIPHERAL"
              ELSE "SOURCE_PERIPHERAL"]

\* Line 395: the value written to BR1.BNDT
Br1Of_Elements(a) == a.mem_len.lo

Br1Of(a) == Bndt(a)

\* Lines 364-406: LLR, TR1, TR2, TR3, BR1, SAR and DAR are written.
NewProg ==
    /\ TaskRuns
    /\ pc = "new_prog"
    /\ tr1' = Tr1Of(arg)
    /\ tr2' = Tr2Of(arg)
    /\ br1' = Br1Of(arg)
    /\ llr' = LlrZero
    /\ sar' = IF arg.dir = "MemoryToPeripheral" THEN "mem_addr" ELSE "peri_addr"
    /\ dar' = IF arg.dir = "MemoryToPeripheral" THEN "peri_addr" ELSE "mem_addr"
    /\ pc' = "new_arm"
    /\ UNCHANGED <<cr, sr, hw_total, complete_count, waker, woken, op, arg, sr_snap, ret,
                   ret_hw, irq_pc, irq_sr, panicked, overflow_checks, hw_reported,
                   drop_active>>
    /\ UNCHANGED ringvars

\* Lines 408-420: the value written to CR
CrArmed(a) ==
    [en |-> TRUE, susp |-> FALSE, tcie |-> TRUE, htie |-> FALSE, suspie |-> TRUE,
     useie |-> TRUE, dteie |-> TRUE, prio |-> PrioVal(a.priority)]

\* Lines 408-422: CR is written with EN set; the hardware latches the block and
\* leaves the idle state.  The Transfer is returned to the caller.
NewArm ==
    /\ TaskRuns
    /\ pc = "new_arm"
    /\ cr' = CrArmed(arg)
    /\ sr' = [sr EXCEPT !.idlef = FALSE]
    /\ hw_total' = br1
    /\ hw_reported' = FALSE
    /\ pc' = "live"
    /\ op' = "none"
    /\ arg' = NoArg
    /\ UNCHANGED <<br1, tr1, tr2, sar, dar, llr, complete_count, waker, woken, sr_snap, ret,
                   ret_hw, irq_pc, irq_sr, panicked, overflow_checks, drop_active>>
    /\ UNCHANGED ringvars

----------------------------------------------------------------------------
(* Transfer::request_stop, is_running, poll, blocking_wait, Drop *)

\* Line 432: ch.cr().modify(|w| w.set_susp(true)); the read and the write of the
\* modify are taken as one step.
CrSusp_Unset(c) == c

CrSusp_Disables(c) == [c EXCEPT !.susp = TRUE, !.en = FALSE]

CrSusp(c) == [c EXCEPT !.susp = TRUE]

\* Lines 428-433: request_stop returns at once.
RequestStop ==
    /\ TaskRuns
    /\ pc = "live"
    /\ cr' = CrSusp(cr)
    /\ UNCHANGED <<sr, br1, tr1, tr2, sar, dar, llr, hw_total, complete_count, waker, woken, pc,
                   op, arg, sr_snap, ret, ret_hw, irq_pc, irq_sr, panicked,
                   overflow_checks, hw_reported, drop_active>>
    /\ UNCHANGED ringvars

\* Lines 452-456: Transfer::get_remaining_transfers returns ch.br1().read().bndt()
TransferRemaining(bndt) == bndt

\* A caller asks is_running.
IsRunningCall ==
    /\ TaskRuns
    /\ pc = "live"
    /\ op' = "is_running"
    /\ pc' = "isr_sr"
    /\ UNCHANGED <<regs, hw_total, complete_count, waker, woken, arg, sr_snap, ret, ret_hw,
                   irq_pc, irq_sr, panicked, overflow_checks, hw_reported, drop_active>>
    /\ UNCHANGED ringvars

\* Line 460: blocking_wait takes the transfer and enters its loop.
BlockingWaitCall ==
    /\ TaskRuns
    /\ pc = "live"
    /\ op' = "blocking_wait"
    /\ pc' = "isr_sr"
    /\ UNCHANGED <<regs, hw_total, complete_count, waker, woken, arg, sr_snap, ret, ret_hw,
                   irq_pc, irq_sr, panicked, overflow_checks, hw_reported, drop_active>>
    /\ UNCHANGED ringvars

\* Lines 471-473: the destructor requests the stop and enters its loop.  The
\* transfer is dropped by its owner, or by the task awaiting it being cancelled.
DropCall ==
    /\ TaskRuns
    /\ pc \in {"live", "pending"}
    /\ cr' = CrSusp(cr)
    /\ drop_active' = HwActive
    /\ op' = "drop"
    /\ pc' = "isr_sr"
    /\ UNCHANGED <<sr, br1, tr1, tr2, sar, dar, llr, hw_total, complete_count, waker, woken, arg,
                   sr_snap, ret, ret_hw, irq_pc, irq_sr, panicked, overflow_checks,
                   hw_reported>>
    /\ UNCHANGED ringvars

\* Line 485: state.waker.register(cx.waker()) is the first thing poll does.  The
\* slot after poll has passed `point` ("entry": before is_running, "exit": after).
PollRegister_AfterCheck(point, w) == IF point = "exit" THEN TRUE ELSE w

PollRegister(point, w) == IF point = "entry" THEN TRUE ELSE w

\* Lines 483-485: the transfer is polled, by hand or by the scheduler after a wake.
PollCall ==
    /\ TaskRuns
    /\ pc = "live" \/ (pc = "pending" /\ woken)
    /\ waker' = PollRegister("entry", waker)
    /\ woken' = FALSE
    /\ op' = "poll"
    /\ pc' = "isr_sr"
    /\ UNCHANGED <<regs, hw_total, complete_count, arg, sr_snap, ret, ret_hw, irq_pc,
                   irq_sr, panicked, overflow_checks, hw_reported, drop_active>>
    /\ UNCHANGED ringvars

\* Line 444: let sr = ch.sr().read()
IsRunningReadSr ==
    /\ TaskRuns
    /\ pc = "isr_sr"
    /\ sr_snap' = [idlef |-> sr.idlef, suspf |-> sr.suspf, reported |-> hw_reported]
    /\ pc' = "isr_cnt"
    /\ UNCHANGED <<regs, hw_total, complete_count, waker, woken, op, arg, ret, ret_hw, irq_pc,
                   irq_sr, panicked, overflow_checks, hw_reported, drop_active>>
    /\ UNCHANGED ringvars

\* Lines 445-447: !sr.idlef() && !tcf && !sr.suspf(), tcf being complete_count != 0
IsRunning_FlagsOnly(s, count) == count = 0 /\ ~s.suspf

IsRunning_Never(s, count) == FALSE

IsRunning(s, count) == ~s.idlef /\ count = 0 /\ ~s.suspf

\* Lines 461-464 and 473-476: what follows the loop of blocking_wait and of the
\* destructor is the fence.
LoopExit_DropUnfenced(o) == IF o = "drop" THEN "ended" ELSE "fence"

LoopExit(o) == "fence"

\* Lines 445-447, and where the result takes the caller: back to the owner, to
\* poll's branch (487), round the loop of blocking_wait (461) or of the
\* destructor (473), or out of it.
IsRunningReturn ==
    /\ TaskRuns
    /\ pc = "isr_cnt"
    /\ LET r == IsRunning(sr_snap, complete_count) IN
       /\ ret' = IF r THEN "running" ELSE "stopped"
       /\ pc' = CASE op = "is_running" -> "live"
                  [] op = "poll" -> "poll_ret"
                  [] OTHER -> IF r THEN "isr_sr" ELSE LoopExit(op)
       /\ op' = IF op = "is_running" THEN "none" ELSE op
    /\ ret_hw' = sr_snap.reported
    /\ sr_snap' = NoSnap
    /\ UNCHANGED <<regs, hw_total, complete_count, waker, woken, arg, irq_pc, irq_sr,
                   panicked, overflow_checks, hw_reported, drop_active>>
    /\ UNCHANGED ringvars

\* Lines 487-491: poll returns Pending, and the task sleeps until it is woken, or
\* Ready.
PollReturn ==
    /\ TaskRuns
    /\ pc = "poll_ret"
    /\ waker' = PollRegister("exit", waker)
    /\ pc' = IF ret = "running" THEN "pending" ELSE "live"
    /\ op' = "none"
    /\ UNCHANGED <<regs, hw_total, complete_count, woken, arg, sr_snap, ret, ret_hw,
                   irq_pc, irq_sr, panicked, overflow_checks, hw_reported, drop_active>>
    /\ UNCHANGED ringvars

\* Lines 464-466 and 476: the closing fence; then blocking_wait forgets the
\* transfer, or the destructor returns.  The transfer's lifetime is over.
Fence ==
    /\ TaskRuns
    /\ pc = "fence"
    /\ pc' = "ended"
    /\ UNCHANGED <<regs, hw_total, complete_count, waker, woken, op, arg, sr_snap, ret,
                   ret_hw, irq_pc, irq_sr, panicked, overflow_checks, hw_reported,
                   drop_active>>
    /\ UNCHANGED ringvars

\* The channel goes back to its owner, who may start the next transfer on it.
Release ==
    /\ TaskRuns
    /\ pc = "ended"
    /\ pc' = "idle"
    /\ op' = "none"
    /\ ret' = "none"
    /\ ret_hw' = FALSE
    /\ drop_active' = FALSE
    /\ rb' = NoRing
    /\ loc' = NoLoc
    /\ gh' = NoHist
    /\ UNCHANGED <<regs, hw_total, complete_count, waker, woken, arg, sr_snap, irq_pc,
                   irq_sr, panicked, overflow_checks, hw_reported>>

----------------------------------------------------------------------------
(* RingBuffer: configure, start, request_stop, is_running, stop, Drop *)

\* The ring buffers a caller constructs: readable (peripheral to memory) or
\* writable (memory to peripheral), over a buffer of `len` elements that is
\* 4-byte aligned or not.
RingArg(kind, len, word_size, aligned) ==
    [kind |-> kind, len |-> len, word_size |-> word_size, aligned |-> aligned]

RingArgs ==
    {RingArg("readable", 2, 1, TRUE), RingArg("readable", 4, 2, TRUE),
     RingArg("writable", 2, 2, TRUE), RingArg("writable", 4, 4, TRUE),
     RingArg("readable", 2, 4, FALSE)}

\* Lines 666 and 798: the direction configure is called with.
RingDir(a) == IF a.kind = "readable" THEN "PeripheralToMemory" ELSE "MemoryToPeripheral"

\* Lines 651-670 and 783-802: ReadableRingBuffer::new or WritableRingBuffer::new
\* is called on the channel and enters RingBuffer::configure.
RingNew ==
    /\ TaskRuns
    /\ pc = "idle"
    /\ \E a \in RingArgs : loc' = [NoLoc EXCEPT !.a = a]
    /\ pc' = "cfg_reset"
    /\ op' = "ring_new"
    /\ UNCHANGED <<regs, hw_total, complete_count, waker, woken, arg, sr_snap, ret, ret_hw,
                   irq_pc, irq_sr, panicked, overflow_checks, hw_reported, drop_active,
                   rb, gh>>

\* Line 536: ch.cr().write(|w| w.set_reset(true))
CfgReset ==
    /\ TaskRuns
    /\ pc = "cfg_reset"
    /\ cr' = CrAfterReset
    /\ sr' = IF HwActive THEN sr ELSE [sr EXCEPT !.idlef = TRUE]
    /\ pc' = "cfg_fcr"
    /\ UNCHANGED <<br1, tr1, tr2, sar, dar, llr, hw_total, complete_count, waker, woken, op, arg,
                   sr_snap, ret, ret_hw, irq_pc, irq_sr, panicked, overflow_checks,
                   hw_reported, drop_active>>
    /\ UNCHANGED ringvars

\* Line 537: ch.fcr().write(|w| w.0 = 0xFFFF_FFFF)
CfgFcr ==
    /\ TaskRuns
    /\ pc = "cfg_fcr"
    /\ sr' = SrAfterFcrAll(sr)
    /\ pc' = "cfg_align"
    /\ UNCHANGED <<cr, br1, tr1, tr2, sar, dar, llr, hw_total, complete_count, waker, woken, op,
                   arg, sr_snap, ret, ret_hw, irq_pc, irq_sr, panicked, overflow_checks,
                   hw_reported, drop_active>>
    /\ UNCHANGED ringvars

\* Lines 539-541: if mem_addr & 0b11 != 0 { panic!(...) }
CfgAlign ==
    /\ TaskRuns
    /\ pc = "cfg_align"
    /\ IF loc.a.aligned
       THEN pc' = "cfg_prog" /\ UNCHANGED panicked
       ELSE panicked' = "unaligned" /\ UNCHANGED pc
    /\ UNCHANGED <<regs, hw_total, complete_count, waker, woken, op, arg, sr_snap, ret,
                   ret_hw, irq_pc, irq_sr, overflow_checks, hw_reported, drop_active>>
    /\ UNCHANGED ringvars

\* Lines 545-552: LLR points to the item that holds the buffer's address, and
\* names the address register that is reloaded from it at the end of each block.
RingLlrOf_Both(a) == [usa |-> TRUE, uda |-> TRUE, la |-> "circular_address"]

RingLlrOf(a) ==
    [usa |-> RingDir(a) = "MemoryToPeripheral",
     uda |-> RingDir(a) = "PeripheralToMemory",
     la |-> "circular_address"]

\* Lines 558-564: TR1; the burst lengths and the ports are left at zero.
RingTr1Of(a) ==
    [Tr1Zero EXCEPT !.sdw = a.word_size,
                    !.ddw = a.word_size,
                    !.sinc = (RingDir(a) = "MemoryToPeripheral"),
                    !.dinc = (RingDir(a) = "PeripheralToMemory")]

\* Line 574: (mem_len * data_size.bytes()) as u16
RingBndt(a) == (a.len * a.word_size) % U16

\* Lines 672-675 and 804-807: the ring buffer object over the buffer.  The
\* cursors of a readable ring start at the head of the buffer; the write cursor
\* of a writable ring starts one lap ahead of the hardware, the whole buffer
\* being what the hardware sends first.
RingObj(a) ==
    [kind |-> a.kind, cap |-> a.len, word_size |-> a.word_size,
     read_index |-> IdxZero,
     write_index |-> IF a.kind = "writable" THEN [IdxZero EXCEPT !.pos = a.len]
                     ELSE IdxZero]

\* Lines 543-586, then 672-675 or 804-807: the registers are programmed and the
\* ring buffer is returned to the caller.
CfgProg ==
    /\ TaskRuns
    /\ pc = "cfg_prog"
    /\ llr' = RingLlrOf(loc.a)
    /\ tr1' = RingTr1Of(loc.a)
    /\ tr2' = Tr2Of([dir |-> RingDir(loc.a)])
    /\ br1' = RingBndt(loc.a)
    /\ sar' = IF RingDir(loc.a) = "MemoryToPeripheral" THEN "mem_addr" ELSE "peri_addr"
    /\ dar' = IF RingDir(loc.a) = "MemoryToPeripheral" THEN "peri_addr" ELSE "mem_addr"
    /\ rb' = RingObj(loc.a)
    /\ loc' = NoLoc
    /\ gh' = NoHist
    /\ pc' = "ring"
    /\ op' = "none"
    /\ UNCHANGED <<cr, sr, hw_total, complete_count, waker, woken, arg, sr_snap, ret,
                   ret_hw, irq_pc, irq_sr, panicked, overflow_checks, hw_reported,
                   drop_active>>

\* Lines 589-595: clear_irqs writes HTF, TCF and SUSPF to FCR.
SrAfterClearIrqs(s) == [s EXCEPT !.htf = FALSE, !.tcf = FALSE, !.suspf = FALSE]

\* Lines 628-629, 679-682, 811-813: start() begins with clear_irqs.
RingStartClear ==
    /\ TaskRuns
    /\ pc = "ring"
    /\ sr' = SrAfterClearIrqs(sr)
    /\ ret' = "none"
    /\ pc' = "start_cr"
    /\ op' = "start"
    /\ UNCHANGED <<cr, br1, tr1, tr2, sar, dar, llr, hw_total, complete_count, waker, woken,
                   arg, sr_snap, ret_hw, irq_pc, irq_sr, panicked, overflow_checks,
                   hw_reported, drop_active>>
    /\ UNCHANGED ringvars

\* Lines 630-638: the value start() writes back to CR.
CrStarted_KeepSusp(c) ==
    [c EXCEPT !.en = TRUE, !.tcie = TRUE, !.useie = TRUE, !.dteie = TRUE,
              !.suspie = TRUE, !.htie = TRUE]

CrStarted(c) ==
    [c EXCEPT !.susp = FALSE, !.en = TRUE, !.tcie = TRUE, !.useie = TRUE,
              !.dteie = TRUE, !.suspie = TRUE, !.htie = TRUE]

\* Lines 630-638: CR is modified.  A disabled channel latches its block and
\* starts; a suspended one resumes where it was.
RingStartCr ==
    /\ TaskRuns
    /\ pc = "start_cr"
    /\ cr' = CrStarted(cr)
    /\ sr' = [sr EXCEPT !.idlef = FALSE]
    /\ hw_total' = IF cr.en THEN hw_total ELSE br1
    /\ gh' = [gh EXCEPT !.started = TRUE]
    /\ pc' = "ring"
    /\ op' = "none"
    /\ UNCHANGED <<br1, tr1, tr2, sar, dar, llr, complete_count, waker, woken, arg, sr_snap,
                   ret, ret_hw, irq_pc, irq_sr, panicked, overflow_checks, hw_reported,
                   drop_active, rb, loc>>

\* Line 827: ch.cr().modify(|w| w.set_en(false)).  The hardware ignores a write
\* of 0 to EN; the other fields are written back as they were read.
CrEnOff(c) == c

\* Lines 601-605, 686-689 and 823-828: what request_stop writes to CR: SUSP for a
\* readable ring, EN = 0 for a writable one.
CrRingStop(kind, c) == IF kind = "readable" THEN CrSusp(c) ELSE CrEnOff(c)

\* Lines 686-689 and 823-828: request_stop returns at once.
RingRequestStop ==
    /\ TaskRuns
    /\ pc = "ring"
    /\ cr' = CrRingStop(rb.kind, cr)
    /\ ret' = "none"
    /\ UNCHANGED <<sr, br1, tr1, tr2, sar, dar, llr, hw_total, complete_count, waker, woken, pc,
                   op, arg, sr_snap, ret_hw, irq_pc, irq_sr, panicked, overflow_checks,
                   hw_reported, drop_active>>
    /\ UNCHANGED ringvars

\* Lines 758-761 and 884-887: a caller asks is_running.
RingIsRunningCall ==
    /\ TaskRuns
    /\ pc = "ring"
    /\ op' = "is_running"
    /\ ret' = "none"
    /\ pc' = "ris_sr"
    /\ UNCHANGED <<regs, hw_total, complete_count, waker, woken, arg, sr_snap, ret_hw,
                   irq_pc, irq_sr, panicked, overflow_checks, hw_reported, drop_active>>
    /\ UNCHANGED ringvars

\* Lines 764-767 and 890-893: the destructor calls request_stop and enters its
\* loop.  The ring buffer is dropped by its owner, also while a future of stop
\* or read_exact that borrowed it was pending and has been dropped.
RingDropCall ==
    /\ TaskRuns
    /\ pc \in {"ring", "stop_pending", "rx_pending"}
    /\ cr' = CrRingStop(rb.kind, cr)
    /\ drop_active' = HwActive
    /\ op' = "drop"
    /\ ret' = "none"
    /\ pc' = "ris_sr"
    /\ loc' = NoLoc
    /\ UNCHANGED <<sr, br1, tr1, tr2, sar, dar, llr, hw_total, complete_count, waker, woken, arg,
                   sr_snap, ret_hw, irq_pc, irq_sr, panicked, overflow_checks,
                   hw_reported, rb, gh>>

\* Lines 597-599: !ch.sr().read().tcf()
RingIsRunning_Idle(s) == ~s.idlef /\ ~s.tcf

RingIsRunning(s) == ~s.tcf

\* Lines 597-599, and where the result takes the caller: back to the owner,
\* round the destructor's loop (767, 893) or out of it.
RingIsRunningRead ==
    /\ TaskRuns
    /\ pc = "ris_sr"
    /\ LET r == RingIsRunning(sr) IN
       /\ ret' = IF r THEN "running" ELSE "stopped"
       /\ pc' = IF op = "is_running" THEN "ring" ELSE IF r THEN "ris_sr" ELSE "fence"
    /\ op' = IF op = "is_running" THEN "none" ELSE op
    /\ UNCHANGED <<regs, hw_total, complete_count, waker, woken, arg, sr_snap, ret_hw,
                   irq_pc, irq_sr, panicked, overflow_checks, hw_reported, drop_active>>
    /\ UNCHANGED ringvars

\* Lines 607-610, 692-695 and 817-820: stop() requests the suspension, then polls.
RingStopCall ==
    /\ TaskRuns
    /\ pc = "ring"
    /\ cr' = CrSusp(cr)
    /\ op' = "stop"
    /\ pc' = "stop_reg"
    /\ ret' = "none"
    /\ UNCHANGED <<sr, br1, tr1, tr2, sar, dar, llr, hw_total, complete_count, waker, woken,
                   arg, sr_snap, ret_hw, irq_pc, irq_sr, panicked, overflow_checks,
                   hw_reported, drop_active>>
    /\ UNCHANGED ringvars

\* Line 614: set_waker(cx.waker()), on the first poll and on every poll after a wake.
StopRegister ==
    /\ TaskRuns
    /\ pc = "stop_reg" \/ (pc = "stop_pending" /\ woken)
    /\ waker' = TRUE
    /\ woken' = FALSE
    /\ pc' = "stop_cr"
    /\ UNCHANGED <<regs, hw_total, complete_count, op, arg, sr_snap, ret, ret_hw, irq_pc,
                   irq_sr, panicked, overflow_checks, hw_reported, drop_active>>
    /\ UNCHANGED ringvars

\* Lines 618-623: what the poll of stop() tests: cr.susp().
StopReady_Suspf(c, s) == s.suspf

StopReady(c, s) == c.susp

\* Lines 618-623: Poll::Ready(()) or Poll::Pending
StopReadCr ==
    /\ TaskRuns
    /\ pc = "stop_cr"
    /\ pc' = IF StopReady(cr, sr) THEN "stop_done" ELSE "stop_pending"
    /\ UNCHANGED <<regs, hw_total, complete_count, waker, woken, op, arg, sr_snap, ret,
                   ret_hw, irq_pc, irq_sr, panicked, overflow_checks, hw_reported,
                   drop_active>>
    /\ UNCHANGED ringvars

\* Line 625: the await of stop() is over.
StopReturn ==
    /\ TaskRuns
    /\ pc = "stop_done"
    /\ pc' = "ring"
    /\ op' = "none"
    /\ ret' = "stop_ready"
    /\ UNCHANGED <<regs, hw_total, complete_count, waker, woken, arg, sr_snap, ret_hw,
                   irq_pc, irq_sr, panicked, overflow_checks, hw_reported, drop_active>>
    /\ UNCHANGED ringvars

----------------------------------------------------------------------------
(* DmaCtrlImpl, and the cursors of the ring buffers: read, read_exact,      *)
(* write, write_immediate.  The adapter is in gpdma.rs; the cursor          *)
(* algorithm it serves (dma/ringbuffer) is modelled from its description:   *)
(* the hardware pointer is the capacity less the remaining transfers, the   *)
(* laps come from the completion counter, which is reset as it is           *)
(* accumulated, and the logical cursor follows the hardware pointer.        *)

\* Lines 501-505: (ch.br1().read().bndt() / self.word_size.bytes() as u16) as usize
GetRemainingTransfers_Bytes(bndt, word_size) == bndt

GetRemainingTransfers(bndt, word_size) == bndt \div word_size

\* Lines 507-509: complete_count.swap(0): the value the counter is left with.
CountAfterReset_Kept(count) == count

CountAfterReset_KeepsOne(count) == IF count > 1 THEN 1 ELSE 0

CountAfterReset(count) == 0

\* An index as a number of elements: laps * capacity + position.
IdxTotal(i, cap) == i.complete_count * cap + i.pos

\* DmaIndex::advance: the cursor moves on by `steps` elements.
IdxAdvance(i, cap, steps) ==
    [complete_count |-> i.complete_count + ((i.pos + steps) \div cap),
     pos |-> (i.pos + steps) % cap]

\* DmaIndex::dma_sync: the index takes the hardware's position and the laps
\* counted since the last look.  A position behind the last one with no lap
\* counted is a lap whose interrupt is still to come: the index waits at the end
\* of the buffer.
IdxSync(i, cap, count_diff, pos) ==
    [complete_count |-> i.complete_count + count_diff,
     pos |-> IF pos < i.pos /\ count_diff = 0 THEN cap - 1 ELSE pos]

\* The index that follows the hardware, and the owner's cursor.
DmaIdx(r) == IF r.kind = "readable" THEN r.write_index ELSE r.read_index

CurIdx(r) == IF r.kind = "readable" THEN r.read_index ELSE r.write_index

WithIdx(r, dma, cur) ==
    IF r.kind = "readable" THEN [r EXCEPT !.write_index = dma, !.read_index = cur]
    ELSE [r EXCEPT !.read_index = dma, !.write_index = cur]

\* DmaIndex::normalize: the laps both indices have made are dropped.
Normalized(r) ==
    LET m == IF r.read_index.complete_count < r.write_index.complete_count
             THEN r.read_index.complete_count ELSE r.write_index.complete_count
    IN [r EXCEPT !.read_index.complete_count = @ - m, !.write_index.complete_count = @ - m]

\* len(): the elements to read, or the room to write; "overrun" when the
\* hardware is more than a lap ahead of the read cursor or has passed the write
\* cursor, "unsynced" when the indices are the other way out of range.
RingLen(r) ==
    LET diff == IdxTotal(r.write_index, r.cap) - IdxTotal(r.read_index, r.cap) IN
    IF r.kind = "readable"
    THEN IF diff < 0 THEN [err |-> "unsynced", n |-> 0]
         ELSE IF diff > r.cap THEN [err |-> "overrun", n |-> 0]
         ELSE [err |-> "none", n |-> diff]
    ELSE IF diff < 0 THEN [err |-> "overrun", n |-> 0]
         ELSE IF diff > r.cap THEN [err |-> "unsynced", n |-> 0]
         ELSE [err |-> "none", n |-> r.cap - diff]

Min(x, y) == IF x < y THEN x ELSE y

\* The handler has run for the half-transfer interrupt of the first lap and no
\* lap has ended: the hardware is in the second half of the buffer, nothing has
\* been taken from it, and no flag is set and no handler is at work.
AfterHalf ==
    /\ gh.started /\ gh.calls = 0 /\ ~gh.uncounted
    /\ gh.ready = rb.cap - GetRemainingTransfers(br1, rb.word_size)
    /\ 2 * gh.ready >= rb.cap
    /\ complete_count = 0 /\ ~sr.tcf /\ ~sr.htf /\ irq_pc = "none"

\* The handler has run for the full-transfer interrupt of the first lap: the
\* hardware has been once round the buffer and no further, nothing has been done
\* to the buffer since, and no flag is set and no handler is at work.
AfterLap ==
    /\ gh.started /\ gh.calls = 0 /\ ~gh.uncounted
    /\ gh.ready = rb.cap
    /\ complete_count = 1 /\ ~sr.tcf /\ ~sr.htf /\ irq_pc = "none"

\* The history when an operation on the cursor is entered; read_exact is
\* entered afresh when nothing is unread and the cursor is at the start or the
\* middle of the buffer.
HistAtCall(h, exact) ==
    [h EXCEPT !.calls = @ + 1, !.arrived = 0, !.over = FALSE, !.half = AfterHalf,
              !.lap = AfterLap,
              !.fresh = (exact /\ h.ready = 0 /\ (2 * CurIdx(rb).pos) % rb.cap = 0)]

\* The history as the completion counter is taken: a completion that waits to
\* be counted makes the look at the hardware late.
HistAtCount(h) == [h EXCEPT !.late = sr.tcf]

\* The history as the hardware's position is read, which ends the look: the
\* first look of a read finds the hardware more than a lap ahead, or not.
HistAtLook(h) ==
    [h EXCEPT !.late = FALSE,
              !.over = IF loc.back = "first" THEN h.ready > rb.cap ELSE @]

\* The lengths of the caller's buffers: half the capacity, and for a read one
\* element more as well.
BufLens(r) ==
    IF r.kind = "readable" THEN {r.cap \div 2, r.cap \div 2 + 1} ELSE {r.cap \div 2}

\* Lines 710-718 and 846-854: read(buf) or write(buf) with a buffer of m elements.
CursorCall ==
    /\ TaskRuns
    /\ pc = "ring"
    /\ \E m \in BufLens(rb) : loc' = [NoLoc EXCEPT !.buf_len = m, !.back = "first"]
    /\ op' = IF rb.kind = "readable" THEN "read" ELSE "write"
    /\ ret' = "none"
    /\ pc' = "sync_cnt"
    /\ gh' = HistAtCall(gh, FALSE)
    /\ UNCHANGED <<regs, hw_total, complete_count, waker, woken, arg, sr_snap, ret_hw,
                   irq_pc, irq_sr, panicked, overflow_checks, hw_reported, drop_active, rb>>

\* Lines 731-741: read_exact(buffer) with a buffer of m elements.
ReadExactCall ==
    /\ TaskRuns
    /\ pc = "ring"
    /\ rb.kind = "readable"
    /\ \E m \in 1..rb.cap : loc' = [NoLoc EXCEPT !.buf_len = m, !.back = "first"]
    /\ op' = "read_exact"
    /\ ret' = "none"
    /\ pc' = "rx_reg"
    /\ gh' = HistAtCall(gh, TRUE)
    /\ UNCHANGED <<regs, hw_total, complete_count, waker, woken, arg, sr_snap, ret_hw,
                   irq_pc, irq_sr, panicked, overflow_checks, hw_reported, drop_active, rb>>

\* Lines 511-513: set_waker, as the poll of read_exact begins: the first poll,
\* and the poll after each wake.
ReadExactRegister ==
    /\ TaskRuns
    /\ pc = "rx_reg" \/ (pc = "rx_pending" /\ woken)
    /\ waker' = TRUE
    /\ woken' = FALSE
    /\ loc' = [loc EXCEPT !.back = "first"]
    /\ pc' = "sync_cnt"
    /\ UNCHANGED <<regs, hw_total, complete_count, op, arg, sr_snap, ret, ret_hw, irq_pc,
                   irq_sr, panicked, overflow_checks, hw_reported, drop_active, rb, gh>>

\* Lines 507-509: dma_sync begins with reset_complete_count().
SyncCount ==
    /\ TaskRuns
    /\ pc = "sync_cnt"
    /\ loc' = [loc EXCEPT !.count_diff = complete_count]
    /\ complete_count' = CountAfterReset(complete_count)
    /\ pc' = "sync_pos"
    /\ gh' = HistAtCount(gh)
    /\ UNCHANGED <<regs, hw_total, waker, woken, op, arg, sr_snap, ret, ret_hw, irq_pc,
                   irq_sr, panicked, overflow_checks, hw_reported, drop_active, rb>>

\* The ring after dma_sync has read the hardware's position (lines 501-505).
Synced(r) ==
    Normalized(WithIdx(r, IdxSync(DmaIdx(r), r.cap, loc.count_diff,
                                  r.cap - GetRemainingTransfers(br1, r.word_size)),
                       CurIdx(r)))

\* The result of the operation, and where it leaves the task: the operation is
\* over, or read_exact stays pending for more.
Finish(l) ==
    IF op = "read_exact" /\ l.res = "ok" /\ l.read_data < l.buf_len
    THEN <<l, "rx_pending">>
    ELSE <<l, "rd_done">>

\* Lines 501-505: dma_sync reads the remaining transfers; then len() is known.
\* After the first len() the elements are copied; after the second the cursor is
\* advanced and the operation returns (elements moved, elements left); an error
\* of len() makes the operation reset the ring first; after the reset the cursor
\* is where the hardware is, and the error is returned.
SyncPos ==
    /\ TaskRuns
    /\ pc = "sync_pos"
    /\ LET r == Synced(rb)
           n == RingLen(r)
           want == loc.buf_len - loc.read_data
       IN
       CASE loc.back = "reset" ->
              /\ rb' = WithIdx(r, DmaIdx(r), DmaIdx(r))
              /\ gh' = [gh EXCEPT !.ready = 0, !.late = FALSE, !.skew = gh.late]
              /\ loc' = loc
              /\ pc' = "rd_done"
         [] loc.back # "reset" /\ n.err # "none" ->
              /\ rb' = r
              /\ gh' = [HistAtLook(gh) EXCEPT !.erred = TRUE]
              /\ loc' = [loc EXCEPT !.res = n.err]
              /\ pc' = "rst_cnt"
         [] loc.back = "first" /\ n.err = "none" ->
              /\ rb' = r
              /\ gh' = HistAtLook(gh)
              /\ loc' = [loc EXCEPT !.first = Min(n.n, want), !.back = "second"]
              /\ pc' = "sync_cnt"
         [] loc.back = "second" /\ n.err = "none" ->
              /\ rb' = WithIdx(r, DmaIdx(r), IdxAdvance(CurIdx(r), r.cap, loc.first))
              /\ gh' = [HistAtLook(gh) EXCEPT !.ready = @ - loc.first]
              /\ LET l == [loc EXCEPT !.res = "ok", !.moved = loc.first,
                                      !.rem = n.n - loc.first,
                                      !.read_data = @ + loc.first]
                 IN loc' = Finish(l)[1] /\ pc' = Finish(l)[2]
    /\ UNCHANGED <<regs, hw_total, complete_count, waker, woken, op, arg, sr_snap, ret,
                   ret_hw, irq_pc, irq_sr, panicked, overflow_checks, hw_reported,
                   drop_active>>

\* Lines 697-702: clear(), which resets the ring.
ClearCall ==
    /\ TaskRuns
    /\ pc = "ring"
    /\ loc' = NoLoc
    /\ op' = "clear"
    /\ ret' = "none"
    /\ pc' = "rst_cnt"
    /\ gh' = HistAtCall(gh, FALSE)
    /\ UNCHANGED <<regs, hw_total, complete_count, waker, woken, arg, sr_snap, ret_hw,
                   irq_pc, irq_sr, panicked, overflow_checks, hw_reported, drop_active, rb>>

\* reset(), on an error or for clear(): reset_complete_count() (lines 507-509),
\* the index of the hardware goes back to zero, and dma_sync follows.
ResetCount ==
    /\ TaskRuns
    /\ pc = "rst_cnt"
    /\ complete_count' = CountAfterReset(complete_count)
    /\ rb' = WithIdx(rb, IdxZero, CurIdx(rb))
    /\ loc' = [loc EXCEPT !.back = "reset"]
    /\ pc' = "sync_cnt"
    /\ UNCHANGED <<regs, hw_total, waker, woken, op, arg, sr_snap, ret, ret_hw, irq_pc,
                   irq_sr, panicked, overflow_checks, hw_reported, drop_active, gh>>

\* Lines 832-834: write_immediate(buf) with a buffer that fills the ring: the
\* elements go to the head of the backing buffer, the cursor stays.
WriteImmediate ==
    /\ TaskRuns
    /\ pc = "ring"
    /\ rb.kind = "writable"
    /\ \E m \in {rb.cap} :
          loc' = [NoLoc EXCEPT !.buf_len = m, !.res = "ok", !.moved = Min(m, rb.cap),
                               !.rem = rb.cap - Min(m, rb.cap)]
    /\ op' = "write_immediate"
    /\ ret' = "none"
    /\ pc' = "rd_done"
    /\ gh' = [gh EXCEPT !.seeded = TRUE]
    /\ UNCHANGED <<regs, hw_total, complete_count, waker, woken, arg, sr_snap, ret_hw,
                   irq_pc, irq_sr, panicked, overflow_checks, hw_reported, drop_active, rb>>

\* The operation returns its result to the caller.
CursorReturn ==
    /\ TaskRuns
    /\ pc = "rd_done"
    /\ pc' = "ring"
    /\ op' = "none"
    /\ loc' = NoLoc
    /\ gh' = [gh EXCEPT !.arrived = 0, !.fresh = FALSE, !.over = FALSE, !.half = FALSE,
                         !.lap = FALSE]
    /\ UNCHANGED <<regs, hw_total, complete_count, waker, woken, arg, sr_snap, ret, ret_hw,
                   irq_pc, irq_sr, panicked, overflow_checks, hw_reported, drop_active, rb>>

----------------------------------------------------------------------------
(* AnyChannel::on_irq *)

\* Line 186: the handler is entered on the channel's interrupt and reads SR once.
IrqEnter ==
    /\ panicked = "none"
    /\ irq_pc = "none"
    /\ IrqLine
    /\ irq_pc' = "body"
    /\ irq_sr' = sr
    /\ UNCHANGED <<regs, hw_total, complete_count, waker, woken, pc, op, arg, sr_snap, ret,
                   ret_hw, panicked, overflow_checks, hw_reported, drop_active>>
    /\ UNCHANGED ringvars

\* Lines 188-201: the two error flags the handler panics on.
IrqFatal_DteOnly(s) == IF s.dtef THEN "dte" ELSE "none"

IrqFatal(s) == IF s.dtef THEN "dte" ELSE IF s.usef THEN "use" ELSE "none"

\* Lines 205, 211, 217: the flags the handler clears through FCR.
SrAfterIrq_ClearsAll(cur, s) ==
    IF s.htf \/ s.tcf \/ s.suspf
    THEN [cur EXCEPT !.htf = FALSE, !.tcf = FALSE, !.suspf = FALSE]
    ELSE cur

SrAfterIrq(cur, s) ==
    [cur EXCEPT !.htf = IF s.htf THEN FALSE ELSE @,
                !.tcf = IF s.tcf THEN FALSE ELSE @,
                !.suspf = IF s.suspf THEN FALSE ELSE @]

\* Lines 220-226: the interrupt enables the handler clears, on suspend only.
CrAfterIrq_Never(c, s) == c

CrAfterIrq_KeepHalf(c, s) ==
    IF s.suspf
    THEN [c EXCEPT !.tcie = FALSE, !.useie = FALSE, !.dteie = FALSE, !.suspie = FALSE]
    ELSE c

CrAfterIrq(c, s) ==
    IF s.suspf
    THEN [c EXCEPT !.tcie = FALSE, !.useie = FALSE, !.dteie = FALSE,
                   !.suspie = FALSE, !.htie = FALSE]
    ELSE c

\* Line 212: state.complete_count.fetch_add(1), when TCF was read.
IrqCount_Always(s, count) == IF s.tcf \/ s.htf THEN count + 1 ELSE count

IrqCount_OnlyAwaited(s, count) == IF s.tcf /\ waker THEN count + 1 ELSE count

IrqCount(s, count) == IF s.tcf THEN count + 1 ELSE count

\* Lines 206, 213, 228: state.waker.wake() is reached.
IrqWakes_NotAtHalf(s) == s.tcf \/ s.suspf

IrqWakes(s) == s.htf \/ s.tcf \/ s.suspf

\* Lines 188-229: the handler's work on the status it read.
IrqBody ==
    /\ panicked = "none"
    /\ irq_pc = "body"
    /\ irq_pc' = "none"
    /\ irq_sr' = SrIdle
    /\ IF IrqFatal(irq_sr) # "none"
       THEN /\ panicked' = IrqFatal(irq_sr)
            /\ UNCHANGED <<regs, complete_count, waker, woken>>
       ELSE /\ sr' = SrAfterIrq(sr, irq_sr)
            /\ cr' = CrAfterIrq(cr, irq_sr)
            /\ complete_count' = IrqCount(irq_sr, complete_count)
            /\ woken' = (woken \/ (IrqWakes(irq_sr) /\ waker))
            /\ waker' = (waker /\ ~IrqWakes(irq_sr))
            /\ UNCHANGED <<br1, tr1, tr2, sar, dar, llr, panicked>>
    /\ UNCHANGED <<hw_total, pc, op, arg, sr_snap, ret, ret_hw, overflow_checks,
                   hw_reported, drop_active>>
    /\ UNCHANGED ringvars

----------------------------------------------------------------------------
(* The DMA hardware *)

\* The channel runs in circular mode: LLR names an item, from which the memory
\* address is reloaded at the end of each block, BNDT being restored.
Circular == llr # LlrZero

\* The ring's history after the hardware has moved one more element; a block
\* that ends while TCF is still set is a lap the handler cannot count.
HistAfterBeat(h, wraps) ==
    [h EXCEPT !.ready = @ + 1,
              !.arrived = IF h.fresh /\ pc # "rd_done" THEN Min(@ + 1, rb.cap) ELSE @,
              !.late = @ \/ (wraps /\ pc = "sync_pos"),
              !.uncounted = @ \/ (wraps /\ sr.tcf)]

\* One data transfer of the source width: BNDT goes down, HTF is raised when
\* half of the block is reached and TCF at its end.  Then a channel without a
\* linked-list item disables itself, and a circular one restores BNDT and goes
\* on, for as long as the peripheral requests data.
HwProgress ==
    /\ panicked = "none"
    /\ HwActive
    /\ br1 > 0
    /\ Circular => gh.ready < MaxLaps * rb.cap
    /\ LET n == IF br1 > tr1.sdw THEN br1 - tr1.sdw ELSE 0 IN
       /\ br1' = IF n = 0 /\ Circular THEN hw_total ELSE n
       /\ sr' = [sr EXCEPT !.htf = @ \/ (2 * br1 > hw_total /\ 2 * n <= hw_total),
                           !.tcf = @ \/ (n = 0),
                           !.idlef = (n = 0 /\ ~Circular)]
       /\ cr' = [cr EXCEPT !.en = (n # 0 \/ Circular)]
       /\ hw_reported' = (hw_reported \/ (n = 0 /\ ~Circular))
       /\ gh' = IF Circular THEN HistAfterBeat(gh, n = 0) ELSE gh
    /\ UNCHANGED <<tr1, tr2, sar, dar, llr, hw_total, complete_count, waker, woken, pc, op, arg,
                   sr_snap, ret, ret_hw, irq_pc, irq_sr, panicked, overflow_checks,
                   drop_active, rb, loc>>

\* A requested suspension takes effect: SUSPF and IDLEF are raised, EN stays set.
HwSuspend ==
    /\ panicked = "none"
    /\ HwActive
    /\ cr.susp
    /\ sr' = [sr EXCEPT !.suspf = TRUE, !.idlef = TRUE]
    /\ hw_reported' = TRUE
    /\ UNCHANGED <<cr, br1, tr1, tr2, sar, dar, llr, hw_total, complete_count, waker, woken, pc,
                   op, arg, sr_snap, ret, ret_hw, irq_pc, irq_sr, panicked,
                   overflow_checks, drop_active>>
    /\ UNCHANGED ringvars

\* A transfer error: a bus error on a data transfer (DTEF), or a channel enabled
\* with a null block size (USEF).  The channel disables itself.
HwError ==
    /\ panicked = "none"
    /\ HwActive
    /\ sr' = IF br1 > 0 THEN [sr EXCEPT !.dtef = TRUE, !.idlef = TRUE]
             ELSE [sr EXCEPT !.usef = TRUE, !.idlef = TRUE]
    /\ cr' = [cr EXCEPT !.en = FALSE]
    /\ hw_reported' = TRUE
    /\ UNCHANGED <<br1, tr1, tr2, sar, dar, llr, hw_total, complete_count, waker, woken, pc, op,
                   arg, sr_snap, ret, ret_hw, irq_pc, irq_sr, panicked, overflow_checks,
                   drop_active>>
    /\ UNCHANGED ringvars

----------------------------------------------------------------------------
(* Specifications *)

Task ==
    \/ Call \/ NewCheck \/ NewFence \/ NewSwap \/ NewReset \/ NewFcr \/ NewProg \/ NewArm
    \/ RequestStop \/ IsRunningCall \/ BlockingWaitCall \/ DropCall \/ PollCall
    \/ IsRunningReadSr \/ IsRunningReturn \/ PollReturn \/ Fence \/ Release

Irq == IrqEnter \/ IrqBody

Hw == HwProgress \/ HwSuspend \/ HwError

Next == Task \/ Irq \/ Hw

Spec == Init /\ [][Next]_vars

\* The steps the processor takes by itself once an operation has been entered,
\* and the scheduler's poll of a woken task.
TaskProgress ==
    \/ NewCheck \/ NewFence \/ NewSwap \/ NewReset \/ NewFcr \/ NewProg \/ NewArm
    \/ IsRunningReadSr \/ IsRunningReturn \/ PollReturn \/ Fence
    \/ (pc = "pending" /\ PollCall)

\* The hardware goes on, a raised interrupt is taken, the processor executes.
FairSpec == Spec /\ WF_vars(Hw) /\ WF_vars(Irq) /\ WF_vars(TaskProgress)

\* new_inner alone, on arguments from the whole range of the machine word.
InitArith ==
    /\ InitCommon
    /\ pc = "new_check"
    /\ op = "new"
    /\ arg \in WideArgs

NextArith == NewCheck \/ NewFence \/ NewSwap \/ NewReset \/ NewFcr \/ NewProg \/ NewArm

SpecArith == InitArith /\ [][NextArith]_vars

\* The ring buffers: one ring buffer owns the channel from its construction to
\* the return of its destructor.
RingTask ==
    \/ RingNew \/ CfgReset \/ CfgFcr \/ CfgAlign \/ CfgProg
    \/ RingStartClear \/ RingStartCr \/ RingRequestStop
    \/ RingIsRunningCall \/ RingDropCall \/ RingIsRunningRead
    \/ RingStopCall \/ StopRegister \/ StopReadCr \/ StopReturn
    \/ Fence

NextRing == RingTask \/ Irq \/ Hw

\* The buffers of the ring buffers are small: no product overflows, whatever the build.
InitRing == Init /\ ~overflow_checks

SpecRing == InitRing /\ [][NextRing]_vars

\* The steps the processor takes by itself inside an operation of a ring buffer.
RingProgress ==
    \/ CfgReset \/ CfgFcr \/ CfgAlign \/ CfgProg \/ RingStartCr
    \/ RingIsRunningRead \/ StopRegister \/ StopReadCr \/ StopReturn \/ Fence

FairRing == SpecRing /\ WF_vars(Hw) /\ WF_vars(Irq) /\ WF_vars(RingProgress)

\* The ring buffers whose cursors are followed: a reader and a writer.
ReadArg == RingArg("readable", 4, 2, TRUE)

WriteArg == RingArg("writable", 8, 1, TRUE)

\* The ring buffer `a` is being constructed on the channel after reset.
InitCursor(a) ==
    /\ cr = CrZero /\ sr = SrIdle /\ br1 = 0 /\ tr1 = Tr1Zero /\ tr2 = Tr2Zero
    /\ sar = "zero" /\ dar = "zero" /\ llr = LlrZero
    /\ hw_total = 0 /\ complete_count = 0 /\ waker = FALSE /\ woken = FALSE
    /\ sr_snap = NoSnap /\ ret = "none" /\ ret_hw = FALSE
    /\ irq_pc = "none" /\ irq_sr = SrIdle /\ panicked = "none"
    /\ overflow_checks = FALSE /\ hw_reported = TRUE /\ drop_active = FALSE
    /\ rb = NoRing /\ gh = NoHist
    /\ pc = "cfg_reset" /\ op = "ring_new" /\ arg = NoArg
    /\ loc = [NoLoc EXCEPT !.a = a]

\* The ring buffer is constructed and started once; the steps of an operation
\* on its cursor.
CursorTask ==
    \/ CfgReset \/ CfgFcr \/ CfgAlign \/ CfgProg
    \/ (~gh.started /\ RingStartClear) \/ RingStartCr
    \/ SyncCount \/ SyncPos \/ ResetCount \/ CursorReturn

\* A readable ring buffer and calls of read.
InitRead == InitCursor(ReadArg)

NextRead == CursorTask \/ (gh.calls < MaxCalls /\ CursorCall) \/ Irq \/ HwProgress

SpecRead == InitRead /\ [][NextRead]_vars

\* Ring buffers of sizes around the limit of BNDT, constructed with transfer
\* options whose burst lengths are inside and outside 1..=63.
WideRingArgs ==
    [kind : {"readable", "writable"}, len : {32767, 32768, 65535, 65536},
     word_size : WordSizes, aligned : BOOLEAN,
     src_burst_len : {0, 1, MaxBurst, MaxBurst + 1},
     dst_burst_len : {0, 1, MaxBurst, MaxBurst + 1}]

InitRingWide == \E a \in WideRingArgs : InitCursor(a)

\* The construction of a ring buffer: RingBuffer::configure.
NextRingWide == CfgReset \/ CfgFcr \/ CfgAlign \/ CfgProg

SpecRingWide == InitRingWide /\ [][NextRingWide]_vars

\* The programming of the channel alone: new_inner of a transfer, or configure
\* of a ring buffer.
InitProg == InitArith \/ InitRingWide

NextProg == NextArith \/ NextRingWide

SpecProg == InitProg /\ [][NextProg]_vars

\* One ring buffer after another on the same channel: each is constructed,
\* seeded or not, started or not, and dropped, and the channel goes to the next.
\* The peripheral makes no more data requests once MaxLaps laps have been counted.
NextReuse ==
    \/ RingNew \/ CfgReset \/ CfgFcr \/ CfgAlign \/ CfgProg
    \/ (~gh.started /\ WriteImmediate) \/ CursorReturn
    \/ (~gh.started /\ RingStartClear) \/ RingStartCr
    \/ RingDropCall \/ RingIsRunningRead \/ Fence \/ Release
    \/ Irq \/ (complete_count < MaxLaps /\ HwProgress) \/ HwSuspend

SpecReuse == InitRing /\ [][NextReuse]_vars

\* A readable ring buffer, cleared once and then read.
NextClear ==
    \/ CursorTask
    \/ (gh.calls = 0 /\ ClearCall) \/ (gh.calls = 1 /\ CursorCall)
    \/ Irq \/ HwProgress

SpecClear == InitRead /\ [][NextClear]_vars

\* A readable ring buffer and one call of read_exact, made when nothing is
\* unread.
NextExact ==
    \/ CursorTask
    \/ (gh.calls = 0 /\ gh.ready = 0 /\ ReadExactCall) \/ ReadExactRegister
    \/ Irq \/ HwProgress

SpecExact == InitRead /\ [][NextExact]_vars

\* A writable ring buffer, filled before it is started, and one call of write.
InitWrite == InitCursor(WriteArg)

NextWrite ==
    \/ CursorTask
    \/ (~gh.started /\ WriteImmediate) \/ (gh.calls = 0 /\ CursorCall)
    \/ Irq \/ HwProgress

SpecWrite == InitWrite /\ [][NextWrite]_vars

----------------------------------------------------------------------------
(* Claims *)

\* What is_running would return on the registers as they are.
WouldRun == IsRunning([idlef |-> sr.idlef, suspf |-> sr.suspf], complete_count)

\* No interrupt of the channel is raised or being handled.
IrqQuiet == irq_pc = "none" /\ ~IrqLine

\* This step is the handler's work on a status without an error flag.
IrqHandles == irq_pc = "body" /\ irq_pc' = "none" /\ IrqFatal(irq_sr) = "none"

AllIesOff(c) == ~c.tcie /\ ~c.htie /\ ~c.suspie /\ ~c.useie /\ ~c.dteie

\* The exact byte count of the call in progress exceeds 65535.
TooManyBytes == MulHigh(arg.mem_len, arg.data_size) > 0

\* C1: when the lifetime of a Single Transfer ends (the destructor or
\* blocking_wait returns), the hardware is no longer transferring on the channel.
C1_IdleWhenLifetimeEnds == pc = "ended" => ~HwActive

\* C2, as claimed: dropping a Single Transfer that is still active leaves the
\* channel's enable bit cleared when the destructor returns.
C2_DropClearsEnable == (pc = "ended" /\ op = "drop" /\ drop_active) => ~cr.en

\* C2, amended: dropping a Single Transfer that is still active leaves the
\* channel's suspend-request bit set when the destructor returns, and the
\* destructor returns only after is_running has returned false.
C2_DropRequestsSuspend ==
    (pc = "ended" /\ op = "drop" /\ drop_active) => (cr.susp /\ ret = "stopped")

\* C2 witness: the destructor has returned from a transfer it found active and
\* the hardware suspended before its end: EN is still set.
C2_Witness ==
    /\ pc = "ended" /\ op = "drop" /\ drop_active
    /\ cr.en /\ cr.susp /\ sr.idlef /\ br1 > 0

\* C3: once request_stop has been called, and with no further call, is_running
\* comes to return false, and does so after the handler has served the interrupt
\* and cleared the flag.
C3_StopEndsRunning ==
    (pc = "live" /\ cr.susp)
        ~> (pc # "live" \/ panicked # "none" \/ (IrqQuiet /\ ~WouldRun))

\* C3 witness: the transfer was stopped before its end and the handler has
\* cleared SUSPF and the interrupt enables; is_running, called after that, has
\* read SR without SUSPF and is returning false.
C3_Witness ==
    /\ pc = "isr_cnt" /\ op = "is_running" /\ cr.susp /\ cr.en /\ br1 > 0
    /\ ~sr.suspf /\ ~cr.suspie /\ complete_count = 0
    /\ ~sr_snap.suspf /\ ~IsRunning(sr_snap, complete_count)

\* C4: is_running returns false only if the hardware has ended the transfer this
\* Transfer armed, and true only if it had not when SR was read.
C4_NotRunningIffReported ==
    /\ ret = "stopped" => hw_reported
    /\ ret = "running" => ~ret_hw

\* C5: a poll that returned Pending is followed by Ready (unless the transfer is
\* dropped or the program aborts): the handler's wake is never missed.
C5_PendingLeadsToReady ==
    (pc = "pending") ~> (pc = "live" \/ op = "drop" \/ panicked # "none")

\* C5 witness: poll returned Pending, then the handler saw the transfer complete
\* and woke the task.
C5_Witness ==
    /\ pc = "pending" /\ woken /\ ~waker
    /\ complete_count = 1 /\ ret = "running"

\* C6: a call whose exact byte count exceeds 65535 never passes the checks of
\* new_inner.
C6_RejectsOver65535 == TooManyBytes => pc = "new_check"

\* C7: when the exact byte count is at most 65535, BNDT is programmed with
\* element count * memory-side word size.
C7_BndtIsByteCount ==
    (pc = "new_arm" /\ ~TooManyBytes) => br1 = arg.mem_len.lo * arg.data_size

\* C7 witness: 16383 words of 4 bytes have been programmed as 65532 bytes.
C7_Witness ==
    /\ pc = "new_arm" /\ arg.mem_len = Word32(0, 16383) /\ arg.data_size = 4
    /\ arg.src_burst_len = 1 /\ br1 = 65532

C9_ErrorAborts ==
    [][(irq_pc = "body" /\ irq_pc' = "none" /\ (irq_sr.dtef \/ irq_sr.usef))
       => (/\ panicked' \in {"dte", "use"}
           /\ UNCHANGED <<regs, complete_count, waker, woken>>)]_vars

\* C9 witness: the handler aborted on DTEF with HTF set beside it and a waker
\* registered: HTF is still set and the task was not woken.
C9_Witness ==
    /\ panicked = "dte" /\ sr.dtef /\ sr.htf
    /\ waker /\ ~woken /\ complete_count = 0

\* C10, as claimed: a handler that observes transfer-complete or
\* suspend-complete clears every interrupt enable of the channel and wakes.
C10_CompleteDisablesEnables ==
    [][(IrqHandles /\ (irq_sr.tcf \/ irq_sr.suspf))
       => (AllIesOff(cr') /\ ~waker' /\ woken' = (woken \/ waker))]_vars

\* C10, amended: a handler that observes transfer-complete clears that flag,
\* counts it and wakes; one that observes suspend-complete clears that flag,
\* clears every interrupt enable and wakes; the interrupt enables are cleared
\* only when suspend-complete is observed.
C10_CompleteClearsFlag ==
    [][IrqHandles
       => (/\ irq_sr.tcf => (~sr'.tcf /\ complete_count' = complete_count + 1)
           /\ irq_sr.suspf => (~sr'.suspf /\ AllIesOff(cr'))
           /\ ~irq_sr.suspf => cr' = cr
           /\ (irq_sr.tcf \/ irq_sr.suspf) => (~waker' /\ woken' = (woken \/ waker)))]_vars

\* C10 witness: the handler has served a completion: TCF is cleared, the counter
\* is 1, the waiting task is woken, and the interrupt enables are still set.
C10_Witness ==
    /\ pc = "pending" /\ woken /\ irq_pc = "none"
    /\ complete_count = 1 /\ ~sr.tcf /\ ~cr.en
    /\ cr.tcie /\ cr.suspie /\ cr.dteie /\ cr.useie

\* The handler wakes: the waker slot is emptied and its task, if any, is woken.
IrqWoke == ~waker' /\ woken' = (woken \/ waker)

\* C11: a handler that observes only the half-complete flag clears that flag
\* alone and wakes; the completion counter, the control register (interrupt
\* enables, enable bit) and the other status flags stay as they are: the channel
\* keeps running.
C11_HalfClearsOnlyHalf ==
    [][(IrqHandles /\ irq_sr.htf /\ ~irq_sr.tcf /\ ~irq_sr.suspf)
       => (/\ sr' = [sr EXCEPT !.htf = FALSE]
           /\ cr' = cr
           /\ complete_count' = complete_count
           /\ IrqWoke)]_vars

\* C11 witness: a running ring whose waiter was woken by a handler that saw the
\* half-complete flag alone: the flag is cleared, nothing is counted, the
\* interrupt enables are set and the hardware is transferring.
C11_Witness ==
    /\ rb.kind # "none" /\ irq_pc = "none" /\ woken /\ complete_count = 0
    /\ ~sr.htf /\ ~sr.suspf /\ HwActive /\ 2 * br1 <= hw_total
    /\ cr.htie /\ cr.tcie /\ cr.suspie

\* C12: a handler that observes the full-complete flag clears it, adds exactly
\* one to the completion counter and wakes; one that does not observe it leaves
\* the counter; and no other step of the program raises the counter.
C12_CountsEachCompletion ==
    [][/\ (IrqHandles /\ irq_sr.tcf)
            => (~sr'.tcf /\ complete_count' = complete_count + 1 /\ IrqWoke)
       /\ (IrqHandles /\ ~irq_sr.tcf) => complete_count' = complete_count
       /\ complete_count' > complete_count => (IrqHandles /\ irq_sr.tcf)]_vars

\* C12 witness: the handler has counted two laps of a ring, seeing the
\* half-complete flag in between.
C12_Witness ==
    /\ rb.kind # "none" /\ irq_pc = "none" /\ complete_count = 2 /\ ~sr.tcf
    /\ ~gh.uncounted

\* C13: a handler that observes suspend-complete on the channel of a ring buffer
\* clears that flag, clears the five interrupt enables and wakes; the interrupt
\* enables stay cleared, and no interrupt of the channel is taken, until start()
\* writes the control register.
C13_SuspendDisarms ==
    [][/\ (IrqHandles /\ irq_sr.suspf) => (~sr'.suspf /\ AllIesOff(cr') /\ IrqWoke)
       /\ (AllIesOff(cr) /\ ~AllIesOff(cr')) => (pc = "start_cr" /\ pc' = "ring")
       /\ (AllIesOff(cr) /\ irq_pc = "none") => irq_pc' = "none"]_vars

\* C13 witness: a ring was suspended by stop(); the handler has cleared SUSPF
\* and the interrupt enables and woken the waiter; the channel stays enabled
\* and suspended.
C13_Witness ==
    /\ rb.kind # "none" /\ irq_pc = "none" /\ woken /\ AllIesOff(cr)
    /\ cr.en /\ cr.susp /\ sr.idlef /\ ~sr.suspf /\ gh.ready > 0

\* C14: stop() resolves only after the hardware has confirmed the suspension:
\* when its await is over the channel no longer transfers.
C14_StopWaitsForSuspend == pc = "stop_done" => ~HwActive

\* C15: when the destructor of a ring buffer returns, the hardware is no longer
\* transferring on the channel.
C15_RingIdleAfterDrop == (pc = "ended" /\ rb.kind # "none") => ~HwActive

\* C16: the destructor of a ring buffer terminates: once it has called
\* request_stop, is_running comes to return false (unless the program aborts).
C16_RingDropTerminates ==
    (op = "drop" /\ rb.kind # "none") ~> (pc = "ended" \/ panicked # "none")

\* The looks at the hardware are exact: no completion waited to be counted when
\* the counter was taken, no lap ended between the counter and the position, no
\* lap was lost to the handler, and the last reset of the cursor was exact too.
ExactLook == ~gh.late /\ ~gh.skew /\ ~gh.uncounted

\* C17: when the hardware is more than the capacity ahead of the logical cursor
\* as a read looks at it, the read returns the overrun error and leaves the
\* logical cursor where the hardware is.
C17_OverrunReported ==
    (pc = "rd_done" /\ op = "read" /\ gh.over)
        => (loc.res = "overrun" /\ CurIdx(rb) = DmaIdx(rb))

RoundUpHalf(m) == ((m + (rb.cap \div 2) - 1) \div (rb.cap \div 2)) * (rb.cap \div 2)

C20_WriteAfterLap ==
    [][(/\ pc = "sync_pos" /\ pc' # pc /\ op = "write" /\ gh.seeded /\ gh.lap
        /\ ExactLook /\ gh.ready = rb.cap /\ 2 * loc.buf_len = rb.cap)
        => /\ loc.back = "first" => (pc' = "sync_cnt" /\ loc'.first = loc.buf_len)
           /\ loc.back = "second" =>
                /\ pc' = "rd_done" /\ loc'.res = "ok"
                /\ 2 * loc'.moved = rb.cap /\ 2 * loc'.rem = rb.cap]_vars

\* The write of 4 elements into the ring of 8 has returned (4, 4).
C20_Witness ==
    /\ pc = "rd_done" /\ op = "write" /\ gh.seeded /\ gh.lap /\ rb.cap = 8
    /\ loc.res = "ok" /\ loc.moved = 4 /\ loc.rem = 4 /\ gh.ready = 4

\* C21: for a readable ring buffer, as long as no overrun has been reported the
\* logical cursor has not passed the hardware pointer: what read has taken is
\* no more than what the hardware has written; and clear() leaves the logical
\* cursor where it found the hardware.
C21_CursorBehindHardware ==
    /\ (rb.kind = "readable" /\ ~gh.erred) => gh.ready >= 0
    /\ (pc = "rd_done" /\ op = "clear") => CurIdx(rb) = DmaIdx(rb)

\* C22: a ring buffer is constructed only when its byte count fits BNDT, and
\* BNDT is then programmed with exactly buffer_len * word_size.
C22_RingBndtIsByteCount ==
    (pc = "ring" /\ ~gh.started) =>
        /\ rb.cap * rb.word_size < U16
        /\ br1 = rb.cap * rb.word_size

\* C23: the construction of a ring buffer returns only when both burst lengths
\* of its transfer options are in 1..=63.
C23_RingOptionsValidated ==
    [][(pc = "cfg_prog" /\ pc' = "ring") =>
          (BurstOk(loc.a.src_burst_len) /\ BurstOk(loc.a.dst_burst_len))]_vars

C25_WaitObservesThenForgets ==
    /\ [](((pc \in {"fence", "ended"}) /\ op = "blocking_wait") =>
              /\ ret = "stopped"
              /\ (sr.idlef \/ sr.suspf \/ complete_count # 0)
              /\ ~drop_active)
    /\ [][(op' = "blocking_wait" /\ pc' # pc) => UNCHANGED regs]_vars
    /\ [][op' = "blocking_wait" => cr'.susp = cr.susp]_vars

\* blocking_wait has returned from a transfer that completed, nobody having
\* asked it to stop.
C25_Witness ==
    /\ pc = "ended"
    /\ op = "blocking_wait"
    /\ ~cr.susp
    /\ ~cr.en
    /\ hw_total > 0
    /\ br1 = 0
    /\ complete_count > 0
    /\ panicked = "none"

\* C26: in the start of a transfer the fence comes before the first write to a
\* register of the channel; and the lifetime of a transfer ends only through
\* the closing fence, which blocking_wait and the destructor reach straight
\* from an is_running that returned false.
C26_FencesBracketTransfer ==
    /\ [][(op = "new" /\ pc' # pc /\ pc \in {"new_check", "new_fence"}) =>
              UNCHANGED <<regs, complete_count>>]_vars
    /\ [][(pc' = "new_swap" /\ pc' # pc) => pc = "new_fence"]_vars
    /\ [][(pc' = "fence" /\ pc' # pc) => (pc = "isr_cnt" /\ ret' = "stopped")]_vars
    /\ [][(pc' = "ended" /\ pc' # pc) =>
              (pc = "fence" /\ ret = "stopped" /\ UNCHANGED regs)]_vars

\* The destructor has returned, through the fence, from a transfer that had
\* completed before it was dropped.
C26_Witness ==
    /\ pc = "ended"
    /\ op = "drop"
    /\ ~drop_active
    /\ complete_count > 0
    /\ cr.susp
    /\ panicked = "none"

\* C27: for a transfer that request_stop has stopped, get_remaining_transfers
\* is the number of elements the hardware has not moved, whatever the size of
\* an element.
C27_RemainingIsElements ==
    (pc = "live" /\ cr.susp /\ sr.idlef /\ cr.en) =>
        TransferRemaining(br1) * tr1.sdw = br1

\* C28: start() of a ring buffer first clears the half-transfer, the complete
\* and the suspend flag, CR being untouched, and only then writes CR: the
\* channel is left enabled, the suspend request cleared and the five interrupt
\* enables set, whatever CR held before.
C28_StartClearsThenEnables ==
    /\ [][(pc = "ring" /\ pc' = "start_cr") =>
              (~sr'.htf /\ ~sr'.tcf /\ ~sr'.suspf /\ cr' = cr)]_vars
    /\ [][(pc' = "start_cr" /\ pc' # pc) => pc = "ring"]_vars
    /\ [][(pc = "start_cr" /\ pc' # pc) =>
              /\ pc' = "ring"
              /\ cr'.en /\ ~cr'.susp
              /\ cr'.tcie /\ cr'.htie /\ cr'.suspie /\ cr'.useie /\ cr'.dteie]_vars

\* start() runs on a ring buffer that was stopped and that the handler has
\* disarmed: no flag is set and CR, with the suspend request, is still to be
\* written.
C28_Witness ==
    /\ pc = "start_cr"
    /\ cr.susp /\ cr.en
    /\ ~cr.suspie /\ ~cr.tcie
    /\ sr.idlef
    /\ ~sr.suspf /\ ~sr.tcf /\ ~sr.htf
    /\ panicked = "none"

\* C29: when the handler runs and no waker is registered, it clears the flags
\* it read, counts a completion and disarms a suspended channel as it does for a
\* waiter, wakes nobody and does not abort; the count stays until the next
\* start, so that a poll made afterwards returns Ready.
C29_HandlerWithoutWaker ==
    /\ [][(irq_pc = "body" /\ irq_pc' = "none" /\ ~waker
             /\ ~irq_sr.dtef /\ ~irq_sr.usef) =>
              /\ sr'.tcf = (sr.tcf /\ ~irq_sr.tcf)
              /\ sr'.htf = (sr.htf /\ ~irq_sr.htf)
              /\ sr'.suspf = (sr.suspf /\ ~irq_sr.suspf)
              /\ complete_count' = complete_count + (IF irq_sr.tcf THEN 1 ELSE 0)
              /\ irq_sr.suspf => AllIesOff(cr')
              /\ ~irq_sr.suspf => cr' = cr
              /\ ~waker' /\ woken' = woken
              /\ panicked' = "none"]_vars
    /\ [][complete_count' < complete_count => pc = "new_swap"]_vars
    /\ [][(pc = "isr_cnt" /\ pc' = "poll_ret" /\ complete_count > 0) =>
              ret' = "stopped"]_vars

\* The handler has counted the completion of a transfer nobody was waiting for;
\* the transfer has then been polled, which registered a waker that is still in
\* place, and the poll has returned Ready.
C29_Witness ==
    /\ pc = "live"
    /\ ret = "stopped"
    /\ complete_count = 1
    /\ waker /\ ~woken
    /\ ~sr.tcf
    /\ ~cr.susp
    /\ panicked = "none"

\* C30: when new_inner has programmed TR1, both burst lengths of the call are in
\* 1..=63 and each burst-length field holds its own burst length less one, a
\* value from 0 to 62.
C30_BurstFieldIsLengthLessOne ==
    (pc = "new_arm" /\ op = "new") =>
        /\ BurstOk(arg.src_burst_len) /\ BurstOk(arg.dst_burst_len)
        /\ tr1.sbl_1 = arg.src_burst_len - 1
        /\ tr1.dbl_1 = arg.dst_burst_len - 1
        /\ tr1.sbl_1 \in 0..(MaxBurst - 1)
        /\ tr1.dbl_1 \in 0..(MaxBurst - 1)

\* TR1 is programmed for a source burst of 2 and a destination burst of 63.
C30_Witness ==
    /\ pc = "new_arm"
    /\ arg.src_burst_len = 2 /\ arg.dst_burst_len = MaxBurst
    /\ tr1.sbl_1 = 1
    /\ tr1.dbl_1 = MaxBurst - 1

\* C31: when new_inner writes CR, the priority field holds the hardware value
\* named like the priority tier of the call.
C31_PriorityIsLikeNamed ==
    [][(pc = "new_arm" /\ pc' = "live") =>
          /\ arg.priority = "LowWithLowWeight" => cr'.prio = "LOW_WITH_LOW_WEIGHT"
          /\ arg.priority = "LowWithMidWeight" => cr'.prio = "LOW_WITH_MID_WEIGHT"
          /\ arg.priority = "LowWithHighWeigt" => cr'.prio = "LOW_WITH_HIGH_WEIGHT"
          /\ arg.priority = "High" => cr'.prio = "HIGH"]_vars

\* C32: the completion counter changes in two ways only: the handler that read
\* TCF adds one to it, and reset_complete_count hands the whole of it to the
\* owner and leaves zero; so what the owner was handed and what the counter
\* holds add up to the completions the handler has seen.
C32_CountIsConserved ==
    /\ [][(irq_pc = "body" /\ irq_pc' = "none" /\ panicked' = "none") =>
              complete_count' = complete_count + (IF irq_sr.tcf THEN 1 ELSE 0)]_vars
    /\ [][(pc = "sync_cnt" /\ pc' # pc) =>
              (loc'.count_diff = complete_count /\ complete_count' = 0)]_vars
    /\ [][(pc = "rst_cnt" /\ pc' # pc) => complete_count' = 0]_vars
    /\ [][(complete_count' # complete_count) =>
              (irq_pc = "body" \/ pc \in {"sync_cnt", "rst_cnt"})]_vars

\* The handler has counted a completion while the owner was between
\* reset_complete_count, which had handed it an earlier completion, and the
\* read of the position.
C32_Witness ==
    /\ pc = "sync_pos"
    /\ loc.count_diff = 1
    /\ complete_count = 1
    /\ panicked = "none"

\* How far the counters put the hardware ahead of the logical cursor: the laps
\* the ring has accumulated and those waiting in the completion counter, and
\* the position the hardware is at.
CountedLead(r) ==
    (DmaIdx(r).complete_count + complete_count) * r.cap
    + (r.cap - GetRemainingTransfers(br1, r.word_size))
    - IdxTotal(CurIdx(r), r.cap)

\* C33: for a running readable ring buffer with every raised interrupt handled
\* and no operation in progress, the laps the handler has counted are the laps
\* the hardware has made: the counters put the hardware as far ahead of the
\* logical cursor as it is.
C33_CountEqualsWraps ==
    (/\ rb.kind = "readable" /\ gh.started /\ pc = "ring"
     /\ irq_pc = "none" /\ ~sr.tcf /\ ~gh.skew /\ panicked = "none")
        => CountedLead(rb) = gh.ready

\* C34: once is_running has returned false for a transfer, the next evaluation
\* of is_running on it, by a caller, by poll or by a loop, returns false again,
\* and a poll that evaluated it returns Ready.
C34_NotRunningIsFinal ==
    /\ [][(pc = "isr_cnt" /\ pc' # pc /\ ret = "stopped") => ret' = "stopped"]_vars
    /\ [][(pc = "poll_ret" /\ pc' # pc /\ ret = "stopped") => pc' = "live"]_vars
    /\ [][(ret = "stopped" /\ ret' # "stopped") => pc = "ended"]_vars

\* is_running had returned false for a transfer that was stopped; the handler
\* has cleared SUSPF and the interrupt enables, and a poll has read SR without
\* SUSPF and is about to evaluate is_running again.
C34_Witness ==
    /\ pc = "isr_cnt" /\ op = "poll"
    /\ ret = "stopped"
    /\ cr.susp /\ cr.en /\ ~cr.suspie
    /\ ~sr.suspf /\ ~sr_snap.suspf /\ sr_snap.idlef
    /\ complete_count = 0
    /\ panicked = "none"

\* C35: from the return of a ring buffer's constructor to its first start the
\* channel is not enabled and none of its interrupt enables is set.
C35_QuietBeforeStart ==
    (rb.kind # "none" /\ ~gh.started /\ pc \in {"ring", "rd_done"}) =>
        (~cr.en /\ AllIesOff(cr) /\ ~IrqLine)

\* C36: the construction of a ring buffer over a buffer that is not 4-byte
\* aligned aborts, and no step of it has changed a register of the channel.
C36_UnalignedTouchesNothing ==
    [][(op = "ring_new" /\ ~loc.a.aligned /\ pc' # pc) => UNCHANGED regs]_vars

\* C37: once the channel is programmed, the memory address is the source and
\* the peripheral address the destination for memory to peripheral, and the
\* reverse for peripheral to memory; the memory side increments, unless the
\* caller asked for no increment, and the peripheral side never does; a
\* transfer has no linked-list item, and the item of a ring buffer reloads the
\* address of the memory side only.
C37_AddressesByDirection ==
    /\ (pc = "new_arm" /\ op = "new") =>
          /\ llr = LlrZero
          /\ arg.dir = "MemoryToPeripheral" =>
                /\ sar = "mem_addr" /\ dar = "peri_addr"
                /\ tr1.sinc = arg.incr_mem /\ ~tr1.dinc
          /\ arg.dir = "PeripheralToMemory" =>
                /\ sar = "peri_addr" /\ dar = "mem_addr"
                /\ tr1.dinc = arg.incr_mem /\ ~tr1.sinc
    /\ (pc = "ring" /\ rb.kind = "writable") =>
          /\ sar = "mem_addr" /\ dar = "peri_addr"
          /\ tr1.sinc /\ ~tr1.dinc
          /\ llr.usa /\ ~llr.uda /\ llr.la = "circular_address"
    /\ (pc = "ring" /\ rb.kind = "readable") =>
          /\ sar = "peri_addr" /\ dar = "mem_addr"
          /\ tr1.dinc /\ ~tr1.sinc
          /\ llr.uda /\ ~llr.usa /\ llr.la = "circular_address"

\* A readable ring buffer is programmed: the peripheral is the source, the
\* destination increments and is the address the circular reload restores.
C37_Witness ==
    /\ pc = "ring" /\ rb.kind = "readable"
    /\ sar = "peri_addr" /\ dar = "mem_addr"
    /\ tr1.dinc /\ llr.uda /\ ~llr.usa
    /\ panicked = "none"

\* C38: for a ring buffer, get_remaining_transfers of the control adapter is
\* the number of elements BNDT stands for, the bytes left divided by the size
\* of an element with nothing lost, and is never more than the capacity.
C38_RemainingInElements ==
    (rb.kind # "none" /\ pc \notin {"ended", "idle"}) =>
        LET g == GetRemainingTransfers(br1, rb.word_size) IN
        /\ g * rb.word_size = br1
        /\ g >= 0
        /\ g <= rb.cap

\* The hardware is half way round a started ring of four words of 4 bytes:
\* 8 bytes, which are 2 elements, are left of the lap.
C38_Witness ==
    /\ pc = "ring"
    /\ rb.word_size = 4 /\ rb.cap = 4
    /\ HwActive
    /\ br1 = 8
    /\ GetRemainingTransfers(br1, rb.word_size) = 2
====
